---- MODULE Spec2Model ----
(***************************************************************************)
(* A model of risk.py: the six dice-outcome tables (roll32 .. roll11), the *)
(* memoized win-probability recursion prob with its flat CACHE, and the    *)
(* battle simulator (battle, roll).                                        *)
(*                                                                         *)
(* Probabilities are Python floats in the source.  The model computes them *)
(* exactly, as rationals n / 6^e over arbitrary-size naturals, so that     *)
(* equalities and orderings are decided by the arithmetic of the           *)
(* recursion and not by rounding.  A float is falsy exactly when it is     *)
(* 0.0; no probability of a state inside the cache underflows to 0.0, so   *)
(* "falsy" is modelled as "equal to zero (or None)".                       *)
(***************************************************************************)
EXTENDS Integers, Sequences, FiniteSets, TLC

\* ------------------------------------------------------------------------
\* Bounds of the model
\* ------------------------------------------------------------------------

\* Capacity of the cache per side.  The source sets 100 (src/risk.py:47);
\* every definition below is parametric in it, and the model explores a
\* scaled-down capacity that still leaves the states 0..6 strictly inside.
MAX_TROOP_CACHE == 7

\* Number of top-level prob calls explored in one run.
MaxCalls == 2

\* The interpreter's recursion limit (1000 by default, far above the depth
\* n_attack + n_defend <= 2 * MAX_TROOP_CACHE of any call inside the cache).
RecursionLimit == 20

\* ------------------------------------------------------------------------
\* Exact arithmetic: naturals as little-endian sequences of limbs, <<>> = 0
\* ------------------------------------------------------------------------

Base == 10 ^ 4

Max(x, y) == IF x >= y THEN x ELSE y
Min(x, y) == IF x <= y THEN x ELSE y

RECURSIVE BigAddC(_, _, _)
BigAddC(x, y, c) ==
    IF x = <<>> /\ y = <<>>
    THEN (IF c = 0 THEN <<>> ELSE <<c>>)
    ELSE LET xd == IF x = <<>> THEN 0 ELSE Head(x)
             yd == IF y = <<>> THEN 0 ELSE Head(y)
             xt == IF x = <<>> THEN <<>> ELSE Tail(x)
             yt == IF y = <<>> THEN <<>> ELSE Tail(y)
             s  == xd + yd + c
         IN  <<s % Base>> \o BigAddC(xt, yt, s \div Base)

BigAdd(x, y) == BigAddC(x, y, 0)

RECURSIVE BigMulC(_, _, _)
BigMulC(x, k, c) ==
    IF x = <<>>
    THEN (IF c = 0 THEN <<>> ELSE <<c % Base>> \o BigMulC(<<>>, k, c \div Base))
    ELSE LET s == Head(x) * k + c
         IN  <<s % Base>> \o BigMulC(Tail(x), k, s \div Base)

\* x * k for a limb-sized k
BigMulSmall(x, k) == IF k = 0 THEN <<>> ELSE BigMulC(x, k, 0)

RECURSIVE BigMul(_, _)
BigMul(x, y) ==
    IF x = <<>> \/ y = <<>> THEN <<>>
    ELSE IF Len(x) = 1 THEN BigMulSmall(y, x[1])
    ELSE LET rest == BigMul(Tail(x), y)
         IN  BigAdd(BigMulSmall(y, Head(x)),
                    IF rest = <<>> THEN <<>> ELSE <<0>> \o rest)

RECURSIVE BigModRec(_, _, _, _)
BigModRec(x, i, k, r) ==
    IF i = 0 THEN r ELSE BigModRec(x, i - 1, k, (r * Base + x[i]) % k)

BigMod(x, k) == BigModRec(x, Len(x), k, 0)

RECURSIVE BigQuotRec(_, _, _, _)
BigQuotRec(x, i, k, r) ==
    IF i = 0 THEN <<>>
    ELSE LET cur == r * Base + x[i]
         IN  Append(BigQuotRec(x, i - 1, k, cur % k), cur \div k)

\* x \div k for a small k (k * Base fits a machine integer)
BigDivSmall(x, k) ==
    LET q == BigQuotRec(x, Len(x), k, 0)
    IN  IF q # <<>> /\ q[Len(q)] = 0 THEN SubSeq(q, 1, Len(q) - 1) ELSE q

RECURSIVE BigLeqRec(_, _, _)
BigLeqRec(x, y, i) ==
    IF i = 0 THEN TRUE
    ELSE IF x[i] # y[i] THEN x[i] < y[i]
    ELSE BigLeqRec(x, y, i - 1)

BigLeq(x, y) ==
    IF Len(x) # Len(y) THEN Len(x) < Len(y) ELSE BigLeqRec(x, y, Len(x))

\* ------------------------------------------------------------------------
\* Exact probabilities: [n |-> natural, e |-> exponent] stands for n / 6^e,
\* kept in the normal form where e = 0 or 6 does not divide n.
\* ------------------------------------------------------------------------

RECURSIVE Reduce(_)
Reduce(q) ==
    IF q.n = <<>> THEN [n |-> <<>>, e |-> 0]
    ELSE IF q.e > 0 /\ BigMod(q.n, 6) = 0
         THEN Reduce([n |-> BigDivSmall(q.n, 6), e |-> q.e - 1])
         ELSE q

RECURSIVE Scale(_, _)
Scale(n, j) ==
    IF j = 0 \/ n = <<>> THEN n
    ELSE LET s == Min(j, 5) IN Scale(BigMulSmall(n, 6 ^ s), j - s)

RatZero == [n |-> <<>>, e |-> 0]
RatOne  == [n |-> <<1>>, e |-> 0]

RatAdd(x, y) ==
    LET e == Max(x.e, y.e)
    IN  Reduce([n |-> BigAdd(Scale(x.n, e - x.e), Scale(y.n, e - y.e)), e |-> e])

RatMul(x, y) == Reduce([n |-> BigMul(x.n, y.n), e |-> x.e + y.e])

RatLeq(x, y) ==
    LET e == Max(x.e, y.e)
    IN  BigLeq(Scale(x.n, e - x.e), Scale(y.n, e - y.e))

\* count / total, for a count below Base and a total that is a power of 6
RatFrac(count, total) ==
    LET k == CHOOSE j \in 0..8 : 6 ^ j = total
    IN  Reduce([n |-> IF count = 0 THEN <<>> ELSE <<count>>, e |-> k])

\* ------------------------------------------------------------------------
\* Dice
\* ------------------------------------------------------------------------

Faces == 6
Die == 1..Faces

RECURSIVE InsertDesc(_, _)
InsertDesc(x, s) ==
    IF s = <<>> THEN <<x>>
    ELSE IF x >= Head(s) THEN <<x>> \o s
    ELSE <<Head(s)>> \o InsertDesc(x, Tail(s))

\* sorted(s, reverse=True)
RECURSIVE SortDesc(_)
SortDesc(s) == IF s = <<>> THEN <<>> ELSE InsertDesc(Head(s), SortDesc(Tail(s)))

\* ------------------------------------------------------------------------
\* The six outcome tables
\* ------------------------------------------------------------------------

Tuples32 == Die \X Die \X Die \X Die \X Die
Tuples22 == Die \X Die \X Die \X Die
Tuples31 == Die \X Die \X Die \X Die
Tuples21 == Die \X Die \X Die
Tuples12 == Die \X Die \X Die
Tuples11 == Die \X Die

\* The pairwise comparison of the two-pair shapes: the counter that one
\* enumerated combination increments (2, 1 or 0 = n_a_wins_2/1/0).
Compare2(a_roll, d_roll) ==
    IF a_roll[1] > d_roll[1]
    THEN (IF a_roll[2] > d_roll[2] THEN 2 ELSE 1)
    ELSE (IF a_roll[2] > d_roll[2] THEN 1 ELSE 0)

\* The comparison of the one-pair shapes (1 = n_a_wins_1, 0 = n_a_wins_0).
Compare1(a_roll, d_roll) == IF a_roll[1] > d_roll[1] THEN 1 ELSE 0

Wins32(t) == Compare2(SortDesc(<<t[1], t[2], t[3]>>), SortDesc(<<t[4], t[5]>>))
Wins22(t) == Compare2(SortDesc(<<t[1], t[2]>>), SortDesc(<<t[3], t[4]>>))
Wins31(t) == Compare1(SortDesc(<<t[1], t[2], t[3]>>), SortDesc(<<t[4]>>))
Wins21(t) == Compare1(SortDesc(<<t[1], t[2]>>), SortDesc(<<t[3]>>))
Wins12(t) == Compare1(SortDesc(<<t[1]>>), SortDesc(<<t[2], t[3]>>))
Wins11(t) == Compare1(SortDesc(<<t[1]>>), SortDesc(<<t[2]>>))

\* The counters after the loops, as <<n_combos, n_a_wins_2, n_a_wins_1,
\* n_a_wins_0>> (two-pair) or <<n_combos, n_a_wins_1, n_a_wins_0>>.
Count32 == <<Cardinality(Tuples32),
             Cardinality({t \in Tuples32 : Wins32(t) = 2}),
             Cardinality({t \in Tuples32 : Wins32(t) = 1}),
             Cardinality({t \in Tuples32 : Wins32(t) = 0})>>
Count22 == <<Cardinality(Tuples22),
             Cardinality({t \in Tuples22 : Wins22(t) = 2}),
             Cardinality({t \in Tuples22 : Wins22(t) = 1}),
             Cardinality({t \in Tuples22 : Wins22(t) = 0})>>
Count31 == <<Cardinality(Tuples31),
             Cardinality({t \in Tuples31 : Wins31(t) = 1}),
             Cardinality({t \in Tuples31 : Wins31(t) = 0})>>
Count21 == <<Cardinality(Tuples21),
             Cardinality({t \in Tuples21 : Wins21(t) = 1}),
             Cardinality({t \in Tuples21 : Wins21(t) = 0})>>
Count12 == <<Cardinality(Tuples12),
             Cardinality({t \in Tuples12 : Wins12(t) = 1}),
             Cardinality({t \in Tuples12 : Wins12(t) = 0})>>
Count11 == <<Cardinality(Tuples11),
             Cardinality({t \in Tuples11 : Wins11(t) = 1}),
             Cardinality({t \in Tuples11 : Wins11(t) = 0})>>

\* (the three probabilities returned in the opposite order)
Returned2Descending(c) ==
    <<RatFrac(c[4], c[1]), RatFrac(c[3], c[1]), RatFrac(c[2], c[1])>>

\* The returned probabilities, named by the number of lost attacking troops.
Returned2(c) == <<RatFrac(c[2], c[1]), RatFrac(c[3], c[1]), RatFrac(c[4], c[1])>>
Returned1(c) == <<RatFrac(c[2], c[1]), RatFrac(c[3], c[1])>>

roll32 == Returned2(Count32)
roll22 == Returned2(Count22)
roll31 == Returned1(Count31)
roll21 == Returned1(Count21)
roll12 == Returned1(Count12)
roll11 == Returned1(Count11)

\* ------------------------------------------------------------------------
\* The cache
\* ------------------------------------------------------------------------

CACHE_SIZE == MAX_TROOP_CACHE * MAX_TROOP_CACHE

\* The empty slot (Python's None), distinct from every probability.
None == [n |-> <<>>, e |-> -1]

\* (a row stride one short of the row length)
cache_indexShortStride(n_attack, n_defend) ==
    (n_defend - 1) * (MAX_TROOP_CACHE - 1) + (n_attack - 1)

cache_index(n_attack, n_defend) ==
    (n_defend - 1) * MAX_TROOP_CACHE + (n_attack - 1)

\* List indexing: an index below -len or above len-1 raises IndexError, and
\* a negative index in range counts from the end of the list.
InRange(i) == -CACHE_SIZE <= i /\ i < CACHE_SIZE
Slot(i) == IF i < 0 THEN i + CACHE_SIZE ELSE i

\* if CACHE[i]: None and 0.0 are falsy
Truthy(v) == v # None /\ v # RatZero

Slots == 0..(CACHE_SIZE - 1)
EmptyCache == [s \in Slots |-> None]

\* The memory one call threads through its recursion: the cache, and the
\* bookkeeping of what was done to it (writes[s]: assignments to slot s,
\* counted up to 2; owners[s]: the states whose value was assigned to s;
\* readers[s]: the states looked up in s while s held a value; ncalls:
\* invocations of prob; nassign: assignments made by this call).
Ok(v, mem) == [ret |-> v, err |-> "", mem |-> mem]
Raise(e, mem) == [ret |-> None, err |-> e, mem |-> mem]

\* The table of the two-pair branch: roll32 if n_attack >= 3 else roll22
TwoPairTable(n_attack) == IF n_attack >= 3 THEN roll32 ELSE roll22

\* (the one-pair choice made on the attacker's dice alone)
OnePairTableIgnoresDefender(n_attack, n_defend) ==
    IF n_attack >= 3 THEN roll31
    ELSE IF n_attack = 2 THEN roll21
    ELSE roll11

\* The table of the one-pair branch
OnePairTable(n_attack, n_defend) ==
    IF n_attack >= 3 THEN roll31
    ELSE IF n_attack = 2 THEN roll21
    ELSE IF n_defend >= 2 THEN roll12
    ELSE roll11

RECURSIVE prob(_, _, _, _)
RECURSIVE lookup(_, _, _, _)

\* i = cache_index(a, d); if CACHE[i]: v = CACHE[i]
\* else: v = prob(a, d); CACHE[i] = v
lookup(a, d, mem, depth) ==
    LET i == cache_index(a, d)
    IN  IF ~InRange(i) THEN Raise("IndexError", mem)
        ELSE
        LET s == Slot(i)
            mem1 == IF mem.cache[s] # None
                    THEN [mem EXCEPT !.readers[s] = @ \cup {<<a, d>>}]
                    ELSE mem
        IN  IF Truthy(mem.cache[s]) THEN Ok(mem.cache[s], mem1)
            ELSE
            LET r == prob(a, d, mem1, depth + 1)
            IN  IF r.err # "" THEN r
                ELSE Ok(r.ret, [r.mem EXCEPT !.cache[s] = r.ret,
                                             !.writes[s] = Min(@ + 1, 2),
                                             !.owners[s] = @ \cup {<<a, d>>},
                                             !.nassign = @ + 1])

prob(n_attack, n_defend, mem0, depth) ==
    LET mem == [mem0 EXCEPT !.ncalls = @ + 1]
    IN
    IF depth > RecursionLimit THEN Raise("RuntimeError", mem0)
    ELSE IF n_attack = 0 THEN Ok(RatZero, mem)
    ELSE IF n_defend = 0 THEN Ok(RatOne, mem)
    ELSE IF Min(n_attack, n_defend) >= 2
    THEN
        LET p  == TwoPairTable(n_attack)
            r2 == lookup(n_attack, n_defend - 2, mem, depth)
            r1 == lookup(n_attack - 1, n_defend - 1, r2.mem, depth)
            r0 == lookup(n_attack - 2, n_defend, r1.mem, depth)
        IN  IF r2.err # "" THEN r2
            ELSE IF r1.err # "" THEN r1
            ELSE IF r0.err # "" THEN r0
            ELSE Ok(RatAdd(RatAdd(RatMul(p[1], r2.ret), RatMul(p[2], r1.ret)),
                           RatMul(p[3], r0.ret)), r0.mem)
    ELSE
        LET p  == OnePairTable(n_attack, n_defend)
            r1 == lookup(n_attack, n_defend - 1, mem, depth)
            r0 == lookup(n_attack - 1, n_defend, r1.mem, depth)
        IN  IF r1.err # "" THEN r1
            ELSE IF r0.err # "" THEN r0
            ELSE Ok(RatAdd(RatMul(p[1], r1.ret), RatMul(p[2], r0.ret)), r0.mem)

\* ------------------------------------------------------------------------
\* The battle simulator
\* ------------------------------------------------------------------------

\* (a tie costs neither side a troop)
rollTieSparesBoth(attackFaces, defendFaces) ==
    LET attackRoll == SortDesc(attackFaces)
        defendRoll == SortDesc(defendFaces)
        pairs == 1..Min(Len(attackRoll), Len(defendRoll))
        dLost == Cardinality({i \in pairs : attackRoll[i] > defendRoll[i]})
        aLost == Cardinality({i \in pairs : attackRoll[i] < defendRoll[i]})
    IN  <<aLost, dLost>>

\* (a tie goes to the attacker)
rollTieToAttacker(attackFaces, defendFaces) ==
    LET attackRoll == SortDesc(attackFaces)
        defendRoll == SortDesc(defendFaces)
        pairs == 1..Min(Len(attackRoll), Len(defendRoll))
        dLost == Cardinality({i \in pairs : attackRoll[i] >= defendRoll[i]})
        aLost == Cardinality({i \in pairs : ~(attackRoll[i] >= defendRoll[i])})
    IN  <<aLost, dLost>>

\* roll(n_attack, n_defend, rng): the rng's draws are the two face sequences.
\* Returns <<aLost, dLost>>.
roll(attackFaces, defendFaces) ==
    LET attackRoll == SortDesc(attackFaces)
        defendRoll == SortDesc(defendFaces)
        pairs == 1..Min(Len(attackRoll), Len(defendRoll))
        dLost == Cardinality({i \in pairs : attackRoll[i] > defendRoll[i]})
        aLost == Cardinality({i \in pairs : ~(attackRoll[i] > defendRoll[i])})
    IN  <<aLost, dLost>>

\* (three attacker dice whatever the troop count)
AttackDiceAlwaysThree(n) == 3

\* a = 3 if n_attack > 3 else n_attack
AttackDice(n) == IF n > 3 THEN 3 ELSE n
\* d = 2 if n_defend > 2 else n_defend
DefendDice(n) == IF n > 2 THEN 2 ELSE n

\* Largest troop count a simulated battle starts with.
MaxTroops == 4

\* ------------------------------------------------------------------------
\* State
\* ------------------------------------------------------------------------

VARIABLES
    CACHE,      \* the module-level list
    writes,     \* per slot: how many times it was assigned (0, 1, 2 = more)
    owners,     \* per slot: the states whose value was assigned to it
    readers,    \* per slot: the states looked up in it while it held a value
    last,       \* the last top-level call of prob and what it did
    rets,       \* the value each state's most recent top-level call returned
    calls,      \* number of top-level calls made
    fight,      \* battle's locals, its position and its return value
    rolled      \* one call of roll or of an outcome table, and its result

vars == <<CACHE, writes, owners, readers, last, rets, calls, fight, rolled>>

NoCall == [a |-> 0, d |-> 0, ret |-> None, err |-> "none", ncalls |-> 0,
           nassign |-> 0]
NoFight == [pc |-> "idle", n_attack |-> 0, n_defend |-> 0, a |-> 0, d |-> 0,
            na |-> 0, nd |-> 0, ret |-> -1, rounds |-> 0, start |-> <<0, 0>>,
            before |-> <<0, 0>>]
NoRoll == [pc |-> "idle", attackFaces |-> <<>>, defendFaces |-> <<>>,
           lost |-> <<0, 0>>, table |-> <<>>]

CacheInit ==
    /\ CACHE = EmptyCache
    /\ writes = [s \in Slots |-> 0]
    /\ owners = [s \in Slots |-> {}]
    /\ readers = [s \in Slots |-> {}]
    /\ rets = <<>>
    /\ calls = 0

\* One top-level call prob(a, d), run to its return or to its exception.
ProbCall(a, d) ==
    LET r == prob(a, d, [cache |-> CACHE, writes |-> writes, owners |-> owners,
                         readers |-> readers, ncalls |-> 0, nassign |-> 0], 1)
    IN  /\ CACHE' = r.mem.cache
        /\ writes' = r.mem.writes
        /\ owners' = r.mem.owners
        /\ readers' = r.mem.readers
        /\ last' = [a |-> a, d |-> d, ret |-> r.ret, err |-> r.err,
                    ncalls |-> r.mem.ncalls, nassign |-> r.mem.nassign]
        /\ rets' = IF r.err = ""
                   THEN [k \in DOMAIN rets \cup {<<a, d>>} |->
                            IF k = <<a, d>> THEN r.ret ELSE rets[k]]
                   ELSE rets
        /\ calls' = calls + 1
        /\ UNCHANGED <<fight, rolled>>

\* --- prob called any number of times with counts inside the cache bound

Call ==
    /\ calls < MaxCalls
    /\ \E a \in 0..MAX_TROOP_CACHE, d \in 0..MAX_TROOP_CACHE : ProbCall(a, d)

Init == CacheInit /\ last = NoCall /\ fight = NoFight /\ rolled = NoRoll
Next == Call
Spec == Init /\ [][Next]_vars

\* --- prob called once on the freshly built cache, the arguments drawn first

FreshInit ==
    /\ CacheInit /\ fight = NoFight /\ rolled = NoRoll
    /\ \E a \in 0..MAX_TROOP_CACHE, d \in 0..MAX_TROOP_CACHE :
          last = [NoCall EXCEPT !.a = a, !.d = d, !.err = "pending"]

FreshCall == last.err = "pending" /\ ProbCall(last.a, last.d)

FreshNext == FreshCall
FreshSpec == FreshInit /\ [][FreshNext]_vars

\* --- prob called with any integers, negative ones included

MaxNegArg == 3

NegCall ==
    /\ calls < MaxCalls
    /\ \E a \in (-MaxNegArg)..MaxNegArg, d \in (-MaxNegArg)..MaxNegArg :
          ProbCall(a, d)

NegNext == NegCall
NegSpec == Init /\ [][NegNext]_vars

\* --- battle(n_attack, n_defend), one loop iteration per step

BattleInit ==
    /\ CacheInit /\ last = NoCall /\ rolled = NoRoll
    /\ \E x \in 1..MaxTroops, y \in 1..MaxTroops :
          fight = [NoFight EXCEPT !.pc = "loop", !.n_attack = x, !.n_defend = y,
                                  !.start = <<x, y>>]

\* while n_attack > 0 and n_defend > 0: ... one iteration
BattleRound ==
    /\ fight.pc = "loop"
    /\ fight.n_attack > 0 /\ fight.n_defend > 0
    /\ LET a == AttackDice(fight.n_attack)
           d == DefendDice(fight.n_defend)
       IN  \E af \in [1..a -> Die], df \in [1..d -> Die] :
              LET r == roll(af, df)
              IN  fight' = [fight EXCEPT !.a = a, !.d = d,
                               !.na = r[1], !.nd = r[2],
                               !.before = <<fight.n_attack, fight.n_defend>>,
                               !.n_attack = @ - r[1],
                               !.n_defend = @ - r[2],
                               !.rounds = Min(@ + 1, 2 * MaxTroops + 1)]
    /\ UNCHANGED <<CACHE, writes, owners, readers, last, rets, calls, rolled>>

\* the loop is left: return n_attack if n_defend == 0 else 0
BattleReturn ==
    /\ fight.pc = "loop"
    /\ ~(fight.n_attack > 0 /\ fight.n_defend > 0)
    /\ fight' = [fight EXCEPT !.pc = "done",
                     !.ret = IF fight.n_defend = 0 THEN fight.n_attack ELSE 0]
    /\ UNCHANGED <<CACHE, writes, owners, readers, last, rets, calls, rolled>>

BattleNext == BattleRound \/ BattleReturn
BattleSpec == BattleInit /\ [][BattleNext]_vars
\* battle is straight-line sequential code: a step that can run does run
FairBattleSpec == BattleSpec /\ WF_vars(BattleNext)

\* --- one call of roll, and one call of the outcome table of the same shape

RollInit ==
    /\ CacheInit /\ last = NoCall /\ fight = NoFight
    /\ \E a \in 1..3, d \in 1..2 :
       \E af \in [1..a -> Die], df \in [1..d -> Die] :
          rolled = [NoRoll EXCEPT !.pc = "args", !.attackFaces = af,
                                  !.defendFaces = df]

DoRoll ==
    /\ rolled.pc = "args"
    /\ rolled' = [rolled EXCEPT !.pc = "rolled",
                      !.lost = roll(rolled.attackFaces, rolled.defendFaces)]
    /\ UNCHANGED <<CACHE, writes, owners, readers, last, rets, calls, fight>>

\* the outcome table for a attacker dice against d defender dice
RollTable(a, d) ==
    IF d = 2 THEN (IF a = 3 THEN roll32 ELSE IF a = 2 THEN roll22 ELSE roll12)
    ELSE (IF a = 3 THEN roll31 ELSE IF a = 2 THEN roll21 ELSE roll11)

DoTable ==
    /\ rolled.pc = "args"
    /\ rolled' = [rolled EXCEPT !.pc = "table",
                      !.table = RollTable(Len(rolled.attackFaces),
                                          Len(rolled.defendFaces))]
    /\ UNCHANGED <<CACHE, writes, owners, readers, last, rets, calls, fight>>

RollNext == DoRoll \/ DoTable
RollSpec == RollInit /\ [][RollNext]_vars

\* ------------------------------------------------------------------------
\* Reference values
\* ------------------------------------------------------------------------

\* Of the 6^(A+D) ways A attacker dice and D defender dice can fall, the
\* number in which roll makes the attacker lose k troops.
LossCount(A, D, k) ==
    Cardinality({t \in [1..(A + D) -> Die] :
                    roll(SubSeq(t, 1, A), SubSeq(t, A + 1, A + D))[1] = k})

LossCountsOf(A, D) == <<LossCount(A, D, 0), LossCount(A, D, 1), LossCount(A, D, 2)>>

\* LossCounts[A][D][k + 1]
LossCounts == << <<LossCountsOf(1, 1), LossCountsOf(1, 2)>>,
                 <<LossCountsOf(2, 1), LossCountsOf(2, 2)>>,
                 <<LossCountsOf(3, 1), LossCountsOf(3, 2)>> >>

\* The attacker's exact win probability in the game tree of battle: states
\* (a, d) in row-major order, state (a, d) at index a * (MAX + 1) + d + 1.
StateIndex(a, d) == a * (MAX_TROOP_CACHE + 1) + d + 1

RoundValue(prev, a, d) ==
    LET A == AttackDice(a)
        D == DefendDice(d)
        K == Min(A, D)
        term(k) == RatMul(RatFrac(LossCounts[A][D][k + 1], 6 ^ (A + D)),
                          prev[StateIndex(a - k, d - (K - k))])
    IN  IF K = 2 THEN RatAdd(RatAdd(term(0), term(1)), term(2))
        ELSE RatAdd(term(0), term(1))

RECURSIVE ExactBuild(_)
ExactBuild(n) ==
    IF n = 0 THEN <<>>
    ELSE LET prev == ExactBuild(n - 1)
             a == (n - 1) \div (MAX_TROOP_CACHE + 1)
             d == (n - 1) % (MAX_TROOP_CACHE + 1)
         IN  Append(prev, IF a = 0 THEN RatZero
                          ELSE IF d = 0 THEN RatOne
                          ELSE RoundValue(prev, a, d))

ExactTable == ExactBuild((MAX_TROOP_CACHE + 1) * (MAX_TROOP_CACHE + 1))
ExactWin(a, d) == ExactTable[StateIndex(a, d)]

\* What prob(a, d) returns when run on a freshly cleared cache.
EmptyMem == [cache |-> EmptyCache, writes |-> [s \in Slots |-> 0],
             owners |-> [s \in Slots |-> {}], readers |-> [s \in Slots |-> {}],
             ncalls |-> 0, nassign |-> 0]

RECURSIVE FreshBuild(_)
FreshBuild(n) ==
    IF n = 0 THEN <<>>
    ELSE Append(FreshBuild(n - 1),
                prob((n - 1) \div (MAX_TROOP_CACHE + 1),
                     (n - 1) % (MAX_TROOP_CACHE + 1), EmptyMem, 1).ret)

FreshTable == FreshBuild((MAX_TROOP_CACHE + 1) * (MAX_TROOP_CACHE + 1))
FreshRet(a, d) == FreshTable[StateIndex(a, d)]

Returned == last.err = ""
Called == DOMAIN rets

\* ------------------------------------------------------------------------
\* Claims
\* ------------------------------------------------------------------------

\* C1: memoization transparency.  Every call prob(a, d) with counts in
\* 0..MAX_TROOP_CACHE returns the value prob(a, d) returns on a freshly
\* cleared cache, whatever calls came before.
MemoizationTransparent ==
    Returned => last.ret = FreshRet(last.a, last.d)

\* C2: started on an empty cache, prob(a, d) is the exact win probability of
\* the battle game tree for all 0 <= a, d <= 6: 0 for a = 0, 1 for d = 0 < a,
\* the round recurrence otherwise, and 15/36 for (1, 1).
ExactOnFreshCache ==
    (Returned /\ last.a <= 6 /\ last.d <= 6) =>
        /\ last.ret = ExactWin(last.a, last.d)
        /\ last.a = 0 => last.ret = RatZero
        /\ (last.a > 0 /\ last.d = 0) => last.ret = RatOne
        /\ (last.a = 1 /\ last.d = 1) => last.ret = RatFrac(15, 36)

ExactOnFreshCacheWitness ==
    /\ Returned /\ last.a = 3 /\ last.d = 2
    /\ last.ret = ExactWin(3, 2)
    /\ last.ret # RatZero /\ last.ret # RatOne
    /\ last.ncalls > 1

\* C3: the values prob returns are monotone: non-decreasing in the attackers
\* for fixed defenders and non-increasing in the defenders for fixed
\* attackers, for all counts in 0..MAX_TROOP_CACHE and any order of calls.
ReturnsMonotone ==
    \A k1 \in Called, k2 \in Called :
        /\ (k1[2] = k2[2] /\ k1[1] < k2[1]) => RatLeq(rets[k1], rets[k2])
        /\ (k1[1] = k2[1] /\ k1[2] < k2[2]) => RatLeq(rets[k2], rets[k1])

\* C4: a call with a negative troop count is rejected with an input
\* validation error before any computation: no recursive call, no cache
\* write, no probability returned.
NegativeRejected ==
    (last.err # "none" /\ (last.a < 0 \/ last.d < 0)) =>
        /\ last.err = "ValueError"
        /\ last.ncalls <= 1
        /\ last.nassign = 0

\* The troops lost so far are at least the rounds played, the rounds are at
\* most the troops battle started with, and the result is 0 or a positive
\* number no larger than the original n_attack.
BattleBounded ==
    fight.pc # "idle" =>
        /\ fight.rounds <= fight.start[1] + fight.start[2]
        /\ fight.n_attack + fight.n_defend + fight.rounds
              <= fight.start[1] + fight.start[2]
        /\ fight.pc = "done" =>
              (fight.ret = 0 \/ (0 < fight.ret /\ fight.ret <= fight.start[1]))

\* C5: battle terminates for positive inputs whatever the dice show: every
\* round removes at least one troop, there are at most n_attack + n_defend
\* rounds, and the result is 0 or at most the original n_attack.
BattleTerminates == []BattleBounded /\ <>(fight.pc = "done")

BattleTerminatesWitness ==
    /\ fight.pc = "done" /\ fight.rounds >= 4
    /\ fight.ret > 0 /\ fight.ret < fight.start[1]

\* C6: a cache slot that holds a value is never assigned again, and never
\* holds the value of a different (attackers, defenders) state.
WrittenOnce ==
    \A s \in Slots : writes[s] <= 1 /\ Cardinality(owners[s]) <= 1

\* The counters of the table for a attacker dice against d defender dice.
CountsOf(a, d) ==
    IF d = 2 THEN (IF a = 3 THEN Count32 ELSE IF a = 2 THEN Count22 ELSE Count12)
    ELSE (IF a = 3 THEN Count31 ELSE IF a = 2 THEN Count21 ELSE Count11)

RECURSIVE SumNat(_)
SumNat(q) == IF q = <<>> THEN 0 ELSE Head(q) + SumNat(Tail(q))
RECURSIVE SumRat(_)
SumRat(q) == IF q = <<>> THEN RatZero ELSE RatAdd(Head(q), SumRat(Tail(q)))

\* C7: each outcome table counts every enumerated dice tuple in exactly one
\* outcome (the counts sum to 6^(A+D)), its probabilities sum to 1, and they
\* come in ascending order of attacker losses.
TablesPartition ==
    rolled.pc = "table" =>
        LET A == Len(rolled.attackFaces)
            D == Len(rolled.defendFaces)
            c == CountsOf(A, D)
            total == 6 ^ (A + D)
        IN  /\ c[1] = total
            /\ SumNat(Tail(c)) = total
            /\ Len(rolled.table) = Min(A, D) + 1
            /\ SumRat(rolled.table) = RatOne
            /\ \A k \in 0..Min(A, D) :
                  rolled.table[k + 1] = RatFrac(LossCounts[A][D][k + 1], total)

TablesPartitionWitness ==
    /\ rolled.pc = "table"
    /\ Len(rolled.attackFaces) = 3 /\ Len(rolled.defendFaces) = 2
    /\ rolled.table[1] = RatFrac(2890, 7776)
    /\ rolled.table[3] = RatFrac(2275, 7776)

\* The i-th highest of the faces f, duplicates counted.
KthHighest(f, i) ==
    CHOOSE v \in Die :
        /\ Cardinality({j \in DOMAIN f : f[j] > v}) < i
        /\ Cardinality({j \in DOMAIN f : f[j] >= v}) >= i

\* C8: roll loses min(attacker dice, defender dice) troops in total; the
\* i-th highest attacker die against the i-th highest defender die costs the
\* defender a troop when strictly greater and the attacker a troop otherwise.
RollPairwise ==
    rolled.pc = "rolled" =>
        LET af == rolled.attackFaces
            df == rolled.defendFaces
            n  == Min(Len(af), Len(df))
            won == {i \in 1..n : KthHighest(af, i) > KthHighest(df, i)}
        IN  /\ rolled.lost[2] = Cardinality(won)
            /\ rolled.lost[1] = n - Cardinality(won)
            /\ rolled.lost[1] + rolled.lost[2]
                  = (IF Len(af) >= 2 /\ Len(df) >= 2 THEN 2 ELSE 1)

RollPairwiseWitness ==
    /\ rolled.pc = "rolled"
    /\ rolled.attackFaces = <<2, 6, 4>> /\ rolled.defendFaces = <<4, 5>>
    /\ rolled.lost = <<1, 1>>

\* C9: in a battle started with positive counts both counts stay >= 0 and
\* are never both 0, roll gets min(n_attack, 3) and min(n_defend, 2) dice,
\* and the result is > 0 exactly when the defenders reached 0 and 0 exactly
\* when the attackers reached 0.
BattleInvariant ==
    fight.pc # "idle" =>
        /\ fight.n_attack >= 0 /\ fight.n_defend >= 0
        /\ ~(fight.n_attack = 0 /\ fight.n_defend = 0)
        /\ fight.rounds > 0 =>
              /\ fight.a = Min(fight.before[1], 3)
              /\ fight.d = Min(fight.before[2], 2)
        /\ fight.pc = "done" =>
              /\ fight.ret > 0 <=> fight.n_defend = 0
              /\ fight.ret = 0 <=> fight.n_attack = 0

BattleInvariantWitness ==
    /\ fight.pc = "done" /\ fight.ret = 0 /\ fight.n_defend > 0
    /\ fight.start = <<4, 3>> /\ fight.a = 1 /\ fight.d = 2

\* Every call so far used counts in 0..MAX_TROOP_CACHE-1.
BelowCapacity ==
    \A k \in Called : k[1] < MAX_TROOP_CACHE /\ k[2] < MAX_TROOP_CACHE

\* C10: while every call uses counts in 0..MAX_TROOP_CACHE-1, every slot
\* that holds a value is written and read for one state only, and holds the
\* exact win probability of that state; so does every returned value.
SoundBelowCapacity ==
    BelowCapacity =>
        /\ \A s \in Slots :
              CACHE[s] # None =>
                 /\ Cardinality(owners[s] \cup readers[s]) = 1
                 /\ \A k \in owners[s] : CACHE[s] = ExactWin(k[1], k[2])
        /\ \A k \in Called : rets[k] = ExactWin(k[1], k[2])

SoundBelowCapacityWitness ==
    /\ BelowCapacity /\ calls = 2
    /\ last.a = MAX_TROOP_CACHE - 1 /\ last.d = MAX_TROOP_CACHE - 1
    /\ \E s \in Slots : Truthy(CACHE[s]) /\ readers[s] # {} /\ writes[s] = 1
    /\ \E s \in Slots : CACHE[s] = RatZero /\ writes[s] = 2
    /\ Truthy(CACHE[Slot(cache_index(1, 0))])

====
